---- MODULE Spec2Model ----
(***************************************************************************)
(* The KPI Creation and Tracking Kit (src/app.py): a Streamlit script that *)
(* is re-executed top to bottom on every user interaction.  One action of  *)
(* this module is one rerun of the script, triggered by one interaction;   *)
(* the session state (st.session_state) and the values of the keyed        *)
(* widgets persist from one rerun to the next.                             *)
(*                                                                         *)
(* Conventions.  Numbers of the benchmark table and of the generated data  *)
(* are kept in hundredths (65 is 6500, 0.05 is 5), so that round(v, 2) is  *)
(* exact.  A text is a sequence of tokens; the newline is the token NL.    *)
(* A table (pandas DataFrame) is a record [cols, data]: the column names   *)
(* in order and, per column, the sequence of its cells; a cell is a        *)
(* sequence, the empty sequence being NaN.  The character U+2265 of the    *)
(* guidance strings is written ">=" and U+2264 "<=".                       *)
(***************************************************************************)
EXTENDS Integers, Sequences, FiniteSets, TLC

VARIABLES
    survey_completed,      \* st.session_state.survey_completed
    survey_responses,      \* st.session_state.survey_responses
    kpi_suggestions,       \* st.session_state.kpi_suggestions
    selected_kpis,         \* st.session_state.selected_kpis
    selected_kpis_struct,  \* st.session_state.selected_kpis_struct
    kpi_data,              \* st.session_state.kpi_data
    kpi_explanations,      \* st.session_state.kpi_explanations
    phase_outputs,         \* st.session_state.phase_outputs
    phase_select,          \* value of the selectbox keyed "phase_select"
    kpi_multiselect,       \* value of the multiselect keyed by the phase: chosen option indices
    event,                 \* the interaction that triggered the last rerun
    screen,                \* what the last rerun rendered
    fpdf,                  \* the PDF library the import of line 4 resolves to
    chart_in,              \* data_points handed to plot_kpi_chart (chart specification)
    chart_out              \* the sorted points with their Moving Average

vars == <<survey_completed, survey_responses, kpi_suggestions, selected_kpis,
          selected_kpis_struct, kpi_data, kpi_explanations, phase_outputs,
          phase_select, kpi_multiselect, event, screen, fpdf, chart_in, chart_out>>

-----------------------------------------------------------------------------
(* Helpers on sequences and dictionaries *)

EmptyDict == [x \in {} |-> x]

Range(s) == {s[i] : i \in DOMAIN s}

RECURSIVE Flatten(_)
Flatten(ss) == IF ss = <<>> THEN <<>> ELSE Head(ss) \o Flatten(Tail(ss))

Put(d, k, v) == [x \in DOMAIN d \cup {k} |-> IF x = k THEN v ELSE d[x]]

\* the element of a one-element set: Only({F(v) : v \in {e}}) is F of the value of e
Only(S) == CHOOSE x \in S : TRUE

Min(a, b) == IF a < b THEN a ELSE b
Max(a, b) == IF a > b THEN a ELSE b

-----------------------------------------------------------------------------
(* BENCHMARKS, in hundredths *)

Bm(b, g) == [base |-> b, growth |-> g]

BENCHMARKS ==
    [ Technology |->
        [ x \in {"User Engagement Score", "Feedback Implementation Rate", "Bug Fix Rate",
                 "Net Promoter Score (NPS)", "Zillow Home Click Rate", "Adoption Rate",
                 "Customer Satisfaction Score (CSAT)", "Retention Rate", "Churn Rate",
                 "Conversion Rate"} |->
          CASE x = "User Engagement Score" -> Bm(6500, 150)
            [] x = "Feedback Implementation Rate" -> Bm(7000, 120)
            [] x = "Bug Fix Rate" -> Bm(8500, 100)
            [] x = "Net Promoter Score (NPS)" -> Bm(4000, 200)
            [] x = "Zillow Home Click Rate" -> Bm(60000, 3000)
            [] x = "Adoption Rate" -> Bm(2500, 50)
            [] x = "Customer Satisfaction Score (CSAT)" -> Bm(400, 5)
            [] x = "Retention Rate" -> Bm(5000, 100)
            [] x = "Churn Rate" -> Bm(500, 10)
            [] x = "Conversion Rate" -> Bm(300, 5) ],
      Healthcare |->
        [ x \in {"User Engagement Score", "Feedback Implementation Rate", "Bug Fix Rate",
                 "Net Promoter Score (NPS)", "Zillow Home Click Rate", "Adoption Rate",
                 "Customer Satisfaction Score (CSAT)", "Retention Rate", "Churn Rate",
                 "Conversion Rate"} |->
          CASE x = "User Engagement Score" -> Bm(5500, 130)
            [] x = "Feedback Implementation Rate" -> Bm(7500, 110)
            [] x = "Bug Fix Rate" -> Bm(9000, 80)
            [] x = "Net Promoter Score (NPS)" -> Bm(3500, 180)
            [] x = "Zillow Home Click Rate" -> Bm(50000, 2500)
            [] x = "Adoption Rate" -> Bm(2000, 50)
            [] x = "Customer Satisfaction Score (CSAT)" -> Bm(350, 5)
            [] x = "Retention Rate" -> Bm(4500, 100)
            [] x = "Churn Rate" -> Bm(600, 10)
            [] x = "Conversion Rate" -> Bm(250, 5) ],
      General |->
        [ x \in {"User Engagement Score", "Feedback Implementation Rate", "Bug Fix Rate",
                 "Net Promoter Score (NPS)", "Zillow Home Click Rate", "Adoption Rate",
                 "Customer Satisfaction Score (CSAT)", "Retention Rate", "Churn Rate",
                 "Conversion Rate"} |->
          CASE x = "User Engagement Score" -> Bm(6000, 100)
            [] x = "Feedback Implementation Rate" -> Bm(7000, 100)
            [] x = "Bug Fix Rate" -> Bm(8500, 100)
            [] x = "Net Promoter Score (NPS)" -> Bm(4000, 150)
            [] x = "Zillow Home Click Rate" -> Bm(55000, 2700)
            [] x = "Adoption Rate" -> Bm(2500, 50)
            [] x = "Customer Satisfaction Score (CSAT)" -> Bm(400, 5)
            [] x = "Retention Rate" -> Bm(5000, 100)
            [] x = "Churn Rate" -> Bm(500, 10)
            [] x = "Conversion Rate" -> Bm(300, 5) ] ]

\* the default of industry_benchmarks.get(kpi_name, {...})
DefaultBenchmark == Bm(100000, 100)

-----------------------------------------------------------------------------
(* The predefined KPI templates *)

Kpi(n, d, g) == [name |-> n, description |-> d, guidance |-> g]

PhaseNames == <<"POC", "Closed Beta", "Public MVP">>

ZillowKpi ==
    Kpi("Zillow Home Click Rate",
        "Tracks the number of clicks on Zillow home listings within the app.",
        "Aim for >= 500 clicks per month.")

predefined_kpis ==
    [ p \in Range(PhaseNames) |->
      CASE p = "POC" ->
            << Kpi("Concept Validation Rate",
                   "Percentage of key features or concepts validated through initial testing or stakeholder feedback.",
                   "Aim for >= 80% validation rate."),
               Kpi("Stakeholder Satisfaction Score",
                   "Average satisfaction rating from stakeholders involved in the POC.",
                   "Aim for >= 4 out of 5."),
               Kpi("Technical Feasibility Index",
                   "Percentage of technical requirements met without major issues.",
                   "Aim for >= 90% feasibility."),
               Kpi("Resource Utilization Efficiency",
                   "Ratio of actual resource usage to planned resource allocation.",
                   "Aim for >= 95% efficiency."),
               Kpi("POC Completion Rate",
                   "Percentage of POC milestones achieved within the planned timeframe.",
                   "Aim for >= 100% completion.") >>
        [] p = "Closed Beta" ->
            << Kpi("User Engagement Score",
                   "Measures active user interactions, such as daily/monthly active users.",
                   "Aim for >= 60% active user rate."),
               Kpi("Feedback Implementation Rate",
                   "Percentage of user feedback items that are addressed and implemented.",
                   "Aim for >= 75% implementation."),
               Kpi("Bug Fix Rate",
                   "Percentage of reported bugs resolved within the beta period.",
                   "Aim for >= 90% fix rate."),
               Kpi("Net Promoter Score (NPS)",
                   "Measures user willingness to recommend the product to others.",
                   "Aim for >= 50 NPS."),
               ZillowKpi >>
        [] p = "Public MVP" ->
            << Kpi("Adoption Rate",
                   "Percentage of target users who adopt the MVP within a specific timeframe.",
                   "Aim for >= 25% within the first quarter."),
               Kpi("Customer Satisfaction Score (CSAT)",
                   "Average satisfaction rating from users post-interaction or usage.",
                   "Aim for >= 4 out of 5."),
               Kpi("Retention Rate",
                   "Percentage of users who continue using the MVP over a set period.",
                   "Aim for >= 50% after six months."),
               Kpi("Churn Rate",
                   "Percentage of users who stop using the MVP within a specific period.",
                   "Aim for <= 5% per month."),
               Kpi("Conversion Rate",
                   "Percentage of users who take a desired action (e.g., sign-up, purchase).",
                   "Aim for >= 3%.") >> ]

B2B2C == "B2B2C (Business-to-Business-to-Consumer)"

\* "digital app" in offering_type.lower(), on the offering types of the survey
ContainsDigitalApp(offering_type) == offering_type \in {"Digital app", "Hybrid DIGITAL APP bundle"}

\* a lookup that falls back to the first phase's list instead of []
get_predefined_kpis_fallback(phase, responses) ==
    IF phase \in DOMAIN predefined_kpis THEN predefined_kpis[phase] ELSE predefined_kpis["POC"]

\* lines 236-340; the customization of lines 331-338 appends one more record to
\* the Closed Beta list
get_predefined_kpis(phase, responses) ==
    LET customize == /\ phase = "Closed Beta"
                     /\ responses["Product Audience"] = B2B2C
                     /\ ContainsDigitalApp(responses["Offering Type"])
        table == [ p \in DOMAIN predefined_kpis |->
                     IF p = "Closed Beta" /\ customize
                     THEN Append(predefined_kpis[p], ZillowKpi)
                     ELSE predefined_kpis[p] ]
    IN  IF phase \in DOMAIN table THEN table[phase] ELSE <<>>

\* explain_kpis: a dictionary keyed by KPI name; a later record of the same name overwrites
RECURSIVE explain_kpis(_)
explain_kpis(kpi_list) ==
    IF kpi_list = <<>> THEN EmptyDict
    ELSE LET n == Len(kpi_list)
             k == kpi_list[n]
         IN  Put(explain_kpis(SubSeq(kpi_list, 1, n - 1)), k.name,
                 <<k.description, " (", k.guidance, ")">>)

-----------------------------------------------------------------------------
(* Tables *)

NaN == <<>>

Table(cols, data) == [cols |-> cols, data |-> data]

\* pd.DataFrame(): no columns, no rows
EmptyTable == Table(<<>>, <<>>)

NRows(t) == IF t.cols = <<>> THEN 0 ELSE Len(t.data[1])

\* DataFrame.empty
IsEmpty(t) == t.cols = <<>> \/ NRows(t) = 0

HasColumn(t, c) == \E i \in DOMAIN t.cols : t.cols[i] = c

Column(t, c) == t.data[CHOOSE i \in DOMAIN t.cols :
                          t.cols[i] = c /\ \A j \in 1..(i - 1) : t.cols[j] # c]

\* pd.concat([a, b], ignore_index=True): the columns of a, then the new ones of b;
\* a cell of a column the frame lacks is NaN
concat(a, b) ==
    LET extra == SelectSeq(b.cols, LAMBDA c : ~HasColumn(a, c))
        cols  == a.cols \o extra
        cells(t, c) == IF HasColumn(t, c) THEN Column(t, c)
                       ELSE [i \in 1..NRows(t) |-> NaN]
    IN  Table(cols, [i \in DOMAIN cols |-> cells(a, cols[i]) \o cells(b, cols[i])])

-----------------------------------------------------------------------------
(* generate_focused_fake_data *)

MonthsPerYear == 12

RECURSIVE Digits(_)
\* str(i): the decimal digits of i
Digits(i) == IF i < 10 THEN <<i>> ELSE Digits(i \div 10) \o <<i % 10>>

\* f"Month {i}"
MonthLabel(i) == <<"Month ">> \o Digits(i)

\* "score" in n.lower() or "rate" in n.lower() or "index" in n.lower(), on the KPI names
ScoreRateIndex(kpi_name) ==
    kpi_name \in {"Concept Validation Rate", "Stakeholder Satisfaction Score",
                  "Technical Feasibility Index", "POC Completion Rate",
                  "User Engagement Score", "Feedback Implementation Rate", "Bug Fix Rate",
                  "Net Promoter Score (NPS)", "Zillow Home Click Rate", "Adoption Rate",
                  "Customer Satisfaction Score (CSAT)", "Retention Rate", "Churn Rate",
                  "Conversion Rate"}

RECURSIVE Compound(_, _, _)
\* base * (growth ** i) with growth in hundredths, cut to the hundredth at each factor
Compound(base, growth, i) ==
    IF i = 0 THEN base ELSE (Compound(base, growth, i - 1) * growth) \div 100

\* int(v) of a value v in hundredths: truncation toward zero, again in hundredths
IntOf(v) == IF v >= 0 THEN (v \div 100) * 100 ELSE -(((-v) \div 100) * 100)

\* a series built with range(1, 12): eleven months
generate_focused_fake_data_short(industry, product_audience, kpi_name, noise) ==
    Table(<<"Time Period", "Value">>,
          << [i \in 1..(MonthsPerYear - 1) |-> MonthLabel(i)],
             [i \in 1..(MonthsPerYear - 1) |-> <<Max(Min(noise[i - 1], 10000), 0)>>] >>)

\* noise[i] is the draw np.random.normal(0, std_dev) of iteration i, in hundredths
generate_focused_fake_data(industry, product_audience, kpi_name, noise) ==
    LET time_periods == [i \in 1..MonthsPerYear |-> MonthLabel(i)]
        industry_benchmarks == IF industry \in DOMAIN BENCHMARKS
                               THEN BENCHMARKS[industry] ELSE BENCHMARKS["General"]
        benchmark == IF kpi_name \in DOMAIN industry_benchmarks
                     THEN industry_benchmarks[kpi_name] ELSE DefaultBenchmark
        base   == benchmark.base
        growth == benchmark.growth
        pct(i) == Max(Min(base + growth * i + noise[i], 10000), 0)
        abs(i) == IntOf(Compound(base, growth, i) + noise[i])
        values == [j \in 1..MonthsPerYear |->
                     IF ScoreRateIndex(kpi_name) THEN <<pct(j - 1)>> ELSE <<abs(j - 1)>>]
        df == Table(<<"Time Period", "Value">>, <<time_periods, values>>)
        expected_periods == {MonthLabel(i) : i \in 1..MonthsPerYear}
    IN  IF ~(\A i \in DOMAIN time_periods : time_periods[i] \in expected_periods)
        THEN EmptyTable
        ELSE Table(df.cols, <<Column(df, "Time Period"),
                              [i \in 1..NRows(df) |->
                                  IF Column(df, "Value")[i] = NaN THEN <<0>>
                                  ELSE Column(df, "Value")[i]]>>)

-----------------------------------------------------------------------------
(* Uploaded files *)

\* str.lower() on the column names of the files
Lower(s) == CASE s = "Time_Period" -> "time_period"
              [] s = "VALUE" -> "value"
              [] s = "Value" -> "value"
              [] s = "Time Period" -> "time period"
              [] OTHER -> s

File(readable, cols) ==
    [readable |-> readable, cols |-> cols,
     data |-> [i \in DOMAIN cols |-> << <<"cell", i>> >>]]

UploadFiles ==
    { File(FALSE, <<>>),
      File(TRUE, <<"time_period", "value">>),
      File(TRUE, <<"Time_Period", "VALUE">>),
      File(TRUE, <<"Time Period", "Value">>),
      File(TRUE, <<"value">>) }

\* a check that asks for the 'value' column alone
HasRequiredColumns_value(file) ==
    {"value"} \subseteq {Lower(file.cols[i]) : i \in DOMAIN file.cols}

\* line 689: both required names among the lower-cased column names
HasRequiredColumns(file) ==
    {"time_period", "value"} \subseteq {Lower(file.cols[i]) : i \in DOMAIN file.cols}

\* lines 690-691: df.columns lower-cased, then rename(columns={'value': 'Value'})
UploadedTable(file) ==
    Table([i \in DOMAIN file.cols |->
              IF Lower(file.cols[i]) = "value" THEN "Value" ELSE Lower(file.cols[i])],
          file.data)

-----------------------------------------------------------------------------
(* plot_kpi_chart *)

\* sort_values('Time Period') and data_points['Value'] raise KeyError without the column
PlotRaises(data_points) ==
    ~(HasColumn(data_points, "Time Period") /\ HasColumn(data_points, "Value"))

RECURSIVE LexLess(_, _)
\* string comparison of two labels, token by token (digits compare as characters)
LexLess(a, b) ==
    IF a = <<>> THEN b # <<>>
    ELSE IF b = <<>> THEN FALSE
    ELSE IF Head(a) = Head(b) THEN LexLess(Tail(a), Tail(b))
    ELSE Head(a) < Head(b)

RECURSIVE InsertSorted(_, _)
InsertSorted(row, sorted) ==
    IF sorted = <<>> THEN <<row>>
    ELSE IF LexLess(Tail(row.period), Tail(Head(sorted).period))
         THEN <<row>> \o sorted
         ELSE <<Head(sorted)>> \o InsertSorted(row, Tail(sorted))

RECURSIVE SortRows(_)
\* the rows ordered by their 'Time Period' string (all labels start with "Month ")
SortRows(rows) ==
    IF rows = <<>> THEN <<>>
    ELSE InsertSorted(rows[Len(rows)], SortRows(SubSeq(rows, 1, Len(rows) - 1)))

RECURSIVE SumValues(_)
SumValues(rows) == IF rows = <<>> THEN 0 ELSE Head(rows).value + SumValues(Tail(rows))

MovingWindow == 3

\* the points plot_kpi_chart draws: sorted by 'Time Period', each with
\* rolling(window=3, min_periods=1).mean() as the fraction [sum, n]
plot_kpi_chart(kpi_name, data_points) ==
    LET rows == [i \in 1..NRows(data_points) |->
                   [period |-> Column(data_points, "Time Period")[i],
                    value  |-> Column(data_points, "Value")[i][1]]]
        sorted == SortRows(rows)
    IN  [i \in DOMAIN sorted |->
           LET lo == Max(1, i - (MovingWindow - 1))
           IN  [period |-> sorted[i].period,
                value  |-> sorted[i].value,
                moving_average |-> [sum |-> SumValues(SubSeq(sorted, lo, i)),
                                    n   |-> i - lo + 1]]]

-----------------------------------------------------------------------------
(* Export functions *)

NL == "\n"

RECURSIVE Join(_, _)
\* sep.join(parts) on token sequences
Join(sep, parts) ==
    IF parts = <<>> THEN <<>>
    ELSE IF Len(parts) = 1 THEN parts[1]
    ELSE parts[1] \o <<sep>> \o Join(sep, Tail(parts))

KpiTextLines(kpi) ==
    << <<"KPI: ", kpi.name>>,
       <<"Description: ", kpi.description>>,
       <<"Guidance: ", kpi.guidance, NL>> >>

\* a writer that drops the newline after the guidance
export_kpis_text_noblank(kpi_list) ==
    Join(NL, Flatten([i \in DOMAIN kpi_list |->
        << <<"KPI: ", kpi_list[i].name>>,
           <<"Description: ", kpi_list[i].description>>,
           <<"Guidance: ", kpi_list[i].guidance>> >>]))

export_kpis_text(kpi_list) ==
    Join(NL, Flatten([i \in DOMAIN kpi_list |-> KpiTextLines(kpi_list[i])]))

\* pd.DataFrame(kpi_list).to_csv(index=False): a header row and one row per record
export_kpis_csv(kpi_list) ==
    IF kpi_list = <<>> THEN <<NL>>
    ELSE Flatten(<< <<"name", ",", "description", ",", "guidance", NL>> >> \o
                 [i \in DOMAIN kpi_list |->
                    <<kpi_list[i].name, ",", kpi_list[i].description, ",",
                      kpi_list[i].guidance, NL>>])

\* json.dumps(kpi_list, indent=4)
export_kpis_json(kpi_list) ==
    <<"[">> \o Flatten([i \in DOMAIN kpi_list |->
                 <<"{", "name", kpi_list[i].name, "description", kpi_list[i].description,
                   "guidance", kpi_list[i].guidance, "}">>]) \o <<"]">>

\* the guidance strings of the templates hold U+2265 or U+2264, outside latin-1
IsLatin1(s) == s \notin {predefined_kpis[p][i].guidance :
                           p \in DOMAIN predefined_kpis, i \in 1..5}

\* export_kpis_pdf with the core font Arial.  With fpdf2 a text outside latin-1
\* makes multi_cell raise, and output(dest='S') is a bytearray, which has no
\* encode: both are uncaught.  With the older fpdf a text outside latin-1 makes
\* output() raise UnicodeEncodeError, which is caught and answered with b"".
export_kpis_pdf(kpi_list, library) ==
    LET latin1 == \A i \in DOMAIN kpi_list :
                     /\ IsLatin1(kpi_list[i].name)
                     /\ IsLatin1(kpi_list[i].description)
                     /\ IsLatin1(kpi_list[i].guidance)
    IN  IF latin1 /\ library = "fpdf"
        THEN [raises |-> FALSE,
              bytes |-> <<"Selected KPIs">> \o
                        Flatten([i \in DOMAIN kpi_list |-> Flatten(KpiTextLines(kpi_list[i]))])]
        ELSE IF library = "fpdf"
        THEN [raises |-> FALSE, bytes |-> <<>>]
        ELSE [raises |-> TRUE, bytes |-> <<>>]

RECURSIVE SplitNL(_)
\* text.split("\n") on a token sequence
SplitNL(text) ==
    IF \A i \in DOMAIN text : text[i] # NL THEN <<text>>
    ELSE LET k == CHOOSE i \in DOMAIN text :
                     text[i] = NL /\ \A j \in 1..(i - 1) : text[j] # NL
         IN  <<SubSeq(text, 1, k - 1)>> \o SplitNL(SubSeq(text, k + 1, Len(text)))

-----------------------------------------------------------------------------
(* Bounds of the model and the inputs of the user *)

\* a KPI accepts at most this many manual data points of one time period
MaxManualRows == 1

\* the survey answers that are read after submission: Industry, Product Audience
\* and Offering Type (the seven other answers are stored and never read)
Responses(industry, audience, offering) ==
    [x \in {"Industry", "Product Audience", "Offering Type"} |->
        CASE x = "Industry" -> industry
          [] x = "Product Audience" -> audience
          [] x = "Offering Type" -> offering]

SurveyInputs ==
    { Responses("Technology", B2B2C, "Digital app"),
      Responses("Retail", B2B2C, "Service"),
      Responses("", "B2C (Business-to-Consumer)", "Hybrid DIGITAL APP bundle") }

\* the multiselect options the user picks among, as (phase, position in the options)
Pickable == { <<"POC", 4>>, <<"Closed Beta", 5>>, <<"Closed Beta", 6>> }

\* the draws of np.random.normal, in hundredths, and the vectors of twelve draws
NoiseVals == {-300, 300}
NoiseVecs == { [i \in 0..(MonthsPerYear - 1) |-> IF i % 2 = 0 THEN a ELSE -a] : a \in NoiseVals }

\* the text typed as time period and the number entered as value of a manual data point
TimePeriodInputs == {"", "Q1 2024"}
ValueInputs == {4200}

RECURSIVE Arrangements(_)
\* the sequences without repetition over S: the values a multiselect over S can take
Arrangements(S) ==
    {<<>>} \cup UNION { {<<x>> \o t : t \in Arrangements(S \ {x})} : x \in S }

-----------------------------------------------------------------------------
(* The script: survey_page *)

Ev(kind, kpi, arg) == [kind |-> kind, kpi |-> kpi, arg |-> arg]

NoExports == [computed |-> FALSE, kpi_list |-> <<>>, csv |-> <<>>, json |-> <<>>,
              text |-> <<>>, pdf |-> <<>>]

BlankScreen ==
    [survey |-> FALSE, kpi_page |-> FALSE, started_completed |-> FALSE, phase |-> "",
     kpi_options |-> <<>>, tracked |-> <<>>, charts |-> <<>>, errors |-> {},
     crash |-> "none", downloads |-> {}, exports |-> NoExports]

\* lines 556-566: "Top 3 KPIs" and "Benchmarks/Targets" of each phase
PhaseOutputs(responses) ==
    [p \in Range(PhaseNames) |->
        LET kpis == get_predefined_kpis(p, responses)
            top  == SubSeq(kpis, 1, Min(3, Len(kpis)))
        IN  [top3 |-> [i \in DOMAIN top |-> top[i].name],
             targets |-> [i \in DOMAIN top |-> top[i].guidance],
             risk_radar |-> (p = "POC")]]

\* lines 574-577
KpiSuggestions(responses) ==
    [p \in Range(PhaseNames) |-> get_predefined_kpis(p, responses)]

\* one rerun on the survey page; ev is the interaction that triggered it
survey_page(ev) ==
    LET submitted == ev.kind = "submit"
        suggestions == KpiSuggestions(ev.arg)
    IN  [survey_completed |-> IF submitted THEN TRUE ELSE survey_completed,
         survey_responses |-> IF submitted THEN ev.arg ELSE survey_responses,
         phase_outputs    |-> IF submitted THEN PhaseOutputs(ev.arg) ELSE phase_outputs,
         kpi_suggestions  |-> IF submitted THEN suggestions ELSE kpi_suggestions,
         kpi_explanations |-> IF submitted
                              THEN explain_kpis(Flatten([i \in DOMAIN PhaseNames |->
                                                            suggestions[PhaseNames[i]]]))
                              ELSE kpi_explanations,
         selected_kpis |-> selected_kpis,
         selected_kpis_struct |-> selected_kpis_struct,
         kpi_data |-> kpi_data,
         phase_select |-> phase_select,
         kpi_multiselect |-> kpi_multiselect,
         screen |-> [BlankScreen EXCEPT !.survey = TRUE]]

-----------------------------------------------------------------------------
(* The script: the KPI page of main *)

\* f"{kpi['name']}: {kpi['description']}"
KpiOption(kpi) == <<kpi.name, ": ", kpi.description>>

\* sel.split(":")[0]: no KPI name holds a colon, so this is the name token
OptionName(sel) == sel[1]

\* lines 633-639: the first suggestion of the phase carrying the option's name
RECURSIVE MapSelected(_, _)
MapSelected(selected, suggestions) ==
    IF selected = <<>> THEN <<>>
    ELSE LET kpi_name == OptionName(Head(selected))
             hits == SelectSeq(suggestions, LAMBDA kpi : kpi.name = kpi_name)
         IN  (IF hits = <<>> THEN <<>> ELSE <<Head(hits)>>)
             \o MapSelected(Tail(selected), suggestions)

\* a mapping that keeps what was selected before
SelectedStruct_keep(selected, suggestions) ==
    selected_kpis_struct \o MapSelected(selected, suggestions)

SelectedStruct(selected, suggestions) == MapSelected(selected, suggestions)

\* lines 676-697: the Upload Data branch for one KPI
UploadData(acc, kpi, file) ==
    IF ~file.readable
    THEN [acc EXCEPT !.errors = @ \cup {"Error reading uploaded file"}]
    ELSE IF HasRequiredColumns(file)
    THEN [acc EXCEPT !.kpi_data = Put(@, kpi.name, UploadedTable(file))]
    ELSE [acc EXCEPT !.errors =
              @ \cup {"Uploaded file must contain 'time_period' and 'value' columns."}]

\* lines 700-712: the Generate Imaginary Data branch, its button clicked
GenerateData(acc, kpi, noise) ==
    LET df == generate_focused_fake_data(survey_responses["Industry"],
                                         survey_responses["Product Audience"],
                                         kpi.name, noise)
    IN  IF ~IsEmpty(df) THEN [acc EXCEPT !.kpi_data = Put(@, kpi.name, df)] ELSE acc

\* lines 715-731: the Manually Add Data branch, its button clicked
AddDataPoint(acc, kpi, time_period, value) ==
    IF time_period # ""
    THEN LET new_data == Table(<<"Time Period", "Value">>,
                               << << <<time_period>> >>, << <<value>> >> >>)
         IN  [acc EXCEPT !.kpi_data =
                 IF kpi.name \in DOMAIN @
                 THEN Put(@, kpi.name, concat(@[kpi.name], new_data))
                 ELSE Put(@, kpi.name, new_data)]
    ELSE [acc EXCEPT !.errors = @ \cup {"Please provide both Time Period and Value."}]

\* lines 733-740: Display Data and Plot for one KPI
DisplayAndPlot(acc, kpi) ==
    IF kpi.name \notin DOMAIN acc.kpi_data THEN acc
    ELSE IF PlotRaises(acc.kpi_data[kpi.name])
    THEN [acc EXCEPT !.crash = "KeyError"]
    ELSE [acc EXCEPT !.charts = Append(@, kpi.name)]

\* lines 675-731: the branch the radio selects; it writes only on a new upload or
\* a click, so the radio's value matters only for the KPI the user acts on
ManageData(acc, kpi, ev) ==
    IF ev.kpi # kpi.name THEN acc
    ELSE IF ev.kind = "upload" THEN UploadData(acc, kpi, ev.arg)
    ELSE IF ev.kind = "generate" THEN GenerateData(acc, kpi, ev.arg)
    ELSE IF ev.kind = "add" THEN AddDataPoint(acc, kpi, ev.arg[1], ev.arg[2])
    ELSE acc

\* lines 663-740: the tracker's loop body for one KPI.  The radio keyed by the KPI
\* name raises DuplicateWidgetID when the key was used before in the run.
TrackKpi(acc, kpi, ev) ==
    IF acc.crash # "none" THEN acc
    ELSE IF kpi.name \in Range(acc.tracked)
    THEN [acc EXCEPT !.crash = "DuplicateWidgetID"]
    ELSE Only({DisplayAndPlot(a, kpi) :
                  a \in {ManageData([acc EXCEPT !.tracked = Append(@, kpi.name)], kpi, ev)}})

RECURSIVE KpiTracker(_, _, _)
\* the KPI Tracker tab: the loop over selected_kpis_struct
KpiTracker(acc, kpi_list, ev) ==
    IF kpi_list = <<>> THEN acc
    ELSE Only({KpiTracker(a, Tail(kpi_list), ev) : a \in {TrackKpi(acc, Head(kpi_list), ev)}})

\* lines 743-757: the KPI Explanations tab
KpiExplanations(acc, kpi_list) ==
    IF acc.crash = "none" /\ kpi_list # <<>> /\ acc.kpi_explanations = EmptyDict
    THEN [acc EXCEPT !.kpi_explanations = explain_kpis(kpi_list)]
    ELSE acc

\* an export tab without the check for an empty selection
ExportKpis_always(acc, kpi_list) ==
    IF acc.crash # "none" THEN acc
    ELSE LET csv  == export_kpis_csv(kpi_list)
             json == export_kpis_json(kpi_list)
             text == export_kpis_text(kpi_list)
             pdf  == export_kpis_pdf(kpi_list, fpdf)
         IN  IF pdf.raises THEN [acc EXCEPT !.crash = "FPDFException"]
             ELSE [acc EXCEPT
                     !.errors = IF pdf.bytes = <<>> THEN @ \cup {"Error encoding PDF"} ELSE @,
                     !.exports = [computed |-> TRUE, kpi_list |-> kpi_list, csv |-> csv,
                                  json |-> json, text |-> text, pdf |-> pdf.bytes],
                     !.downloads = (IF csv # <<>> THEN {"Download KPIs as CSV"} ELSE {})
                              \cup (IF json # <<>> THEN {"Download KPIs as JSON"} ELSE {})
                              \cup (IF text # <<>> THEN {"Download KPIs as Text"} ELSE {})
                              \cup (IF pdf.bytes # <<>> THEN {"Download KPIs as PDF"} ELSE {})]

\* lines 760-800: the Export KPIs tab
ExportKpis(acc, kpi_list) ==
    IF acc.crash # "none" \/ kpi_list = <<>> THEN acc
    ELSE LET csv  == export_kpis_csv(kpi_list)
             json == export_kpis_json(kpi_list)
             text == export_kpis_text(kpi_list)
             pdf  == export_kpis_pdf(kpi_list, fpdf)
         IN  IF pdf.raises THEN [acc EXCEPT !.crash = "FPDFException"]
             ELSE [acc EXCEPT
                     !.errors = IF pdf.bytes = <<>> THEN @ \cup {"Error encoding PDF"} ELSE @,
                     !.exports = [computed |-> TRUE, kpi_list |-> kpi_list, csv |-> csv,
                                  json |-> json, text |-> text, pdf |-> pdf.bytes],
                     !.downloads = (IF csv # <<>> THEN {"Download KPIs as CSV"} ELSE {})
                              \cup (IF json # <<>> THEN {"Download KPIs as JSON"} ELSE {})
                              \cup (IF text # <<>> THEN {"Download KPIs as Text"} ELSE {})
                              \cup (IF pdf.bytes # <<>> THEN {"Download KPIs as PDF"} ELSE {})]

\* what a rerun has rendered and written so far
NoTabs ==
    [kpi_data |-> kpi_data, kpi_explanations |-> kpi_explanations, tracked |-> <<>>,
     charts |-> <<>>, errors |-> {}, crash |-> "none", downloads |-> {},
     exports |-> NoExports]

\* lines 650-800: the four tabs, in order; an exception ends the rerun
Tabs(kpi_list, ev) ==
    Only({ Only({ ExportKpis(a2, kpi_list) : a2 \in {KpiExplanations(a1, kpi_list)} }) :
           a1 \in {KpiTracker(NoTabs, kpi_list, ev)} })

\* lines 621-647: the Suggested KPIs section, skipped while kpi_suggestions is empty
Suggested(phase, chosen) ==
    LET suggestions == IF phase \in DOMAIN kpi_suggestions THEN kpi_suggestions[phase] ELSE <<>>
        kpi_options == [i \in DOMAIN suggestions |-> KpiOption(suggestions[i])]
        selected == [i \in DOMAIN chosen |-> kpi_options[chosen[i]]]
    IN  IF kpi_suggestions # EmptyDict
        THEN [kpi_options |-> kpi_options, chosen |-> chosen, selected |-> selected,
              selected_struct |-> SelectedStruct(selected, suggestions)]
        ELSE [kpi_options |-> <<>>, chosen |-> <<>>, selected |-> <<>>,
              selected_struct |-> selected_kpis_struct]

\* the state a KPI-page rerun leaves, from its sections' results
KpiPageState(phase, sel, acc) ==
    [survey_completed |-> survey_completed,
     survey_responses |-> survey_responses,
     phase_outputs    |-> phase_outputs,
     kpi_suggestions  |-> kpi_suggestions,
     kpi_explanations |-> acc.kpi_explanations,
     selected_kpis |-> IF sel.selected # <<>> THEN sel.selected ELSE selected_kpis,
     selected_kpis_struct |-> sel.selected_struct,
     kpi_data |-> acc.kpi_data,
     phase_select |-> phase,
     kpi_multiselect |-> sel.chosen,
     screen |-> [survey |-> FALSE, kpi_page |-> TRUE, started_completed |-> TRUE,
                 phase |-> phase, kpi_options |-> sel.kpi_options,
                 tracked |-> acc.tracked, charts |-> acc.charts,
                 errors |-> acc.errors, crash |-> acc.crash,
                 downloads |-> acc.downloads, exports |-> acc.exports]]

\* one rerun on the KPI page; ev is the interaction that triggered it
kpi_page(ev) ==
    LET phase == IF ev.kind = "phase" THEN ev.arg ELSE phase_select
        \* the multiselect is keyed by the phase: under a new key it starts empty
        chosen == IF phase # phase_select THEN <<>>
                  ELSE IF ev.kind = "select" THEN ev.arg
                  ELSE kpi_multiselect
    IN  IF phase \notin DOMAIN phase_outputs
        THEN KpiPageState(phase, [kpi_options |-> <<>>, chosen |-> <<>>, selected |-> <<>>,
                                  selected_struct |-> selected_kpis_struct], NoTabs)
        ELSE Only({ Only({ KpiPageState(phase, sel, acc) :
                           acc \in {Tabs(sel.selected_struct, ev)} }) :
                    sel \in {Suggested(phase, chosen)} })

\* a main that handles a form submission whenever one arrives
main_resubmit(ev) ==
    IF ~survey_completed \/ ev.kind = "submit" THEN survey_page(ev) ELSE kpi_page(ev)

\* main: lines 589-591 choose the page by survey_completed as the rerun finds it
main(ev) == IF ~survey_completed THEN survey_page(ev) ELSE kpi_page(ev)

-----------------------------------------------------------------------------
(* The session: one action per interaction, each a whole rerun of the script *)

Init ==
    /\ survey_completed = FALSE
    /\ survey_responses = EmptyDict
    /\ kpi_suggestions = EmptyDict
    /\ selected_kpis = <<>>
    /\ selected_kpis_struct = <<>>   \* created by line 642 before its first read
    /\ kpi_data = EmptyDict
    /\ kpi_explanations = EmptyDict
    /\ phase_outputs = EmptyDict
    /\ phase_select = "POC"          \* index=0 of the selectbox
    /\ kpi_multiselect = <<>>
    /\ event = Ev("none", "", <<>>)
    /\ screen = BlankScreen
    /\ fpdf \in {"fpdf2", "fpdf"}
    /\ chart_in = EmptyTable
    /\ chart_out = <<>>

Apply(ev) ==
    \E run \in {main(ev)} :
        /\ survey_completed' = run.survey_completed
        /\ survey_responses' = run.survey_responses
        /\ kpi_suggestions' = run.kpi_suggestions
        /\ selected_kpis' = run.selected_kpis
        /\ selected_kpis_struct' = run.selected_kpis_struct
        /\ kpi_data' = run.kpi_data
        /\ kpi_explanations' = run.kpi_explanations
        /\ phase_outputs' = run.phase_outputs
        /\ phase_select' = run.phase_select
        /\ kpi_multiselect' = run.kpi_multiselect
        /\ screen' = [run.screen EXCEPT !.started_completed = survey_completed]
        /\ event' = Ev(ev.kind, ev.kpi, IF ev.kind = "upload" THEN ev.arg ELSE <<>>)
        /\ UNCHANGED <<fpdf, chart_in, chart_out>>

\* the page is loaded, or an interaction that sets nothing reruns the script
Rerun == Apply(Ev("rerun", "", <<>>))

\* "Submit Survey" is pressed on the form the browser shows
SubmitSurvey ==
    \E r \in SurveyInputs :
        /\ screen.survey
        /\ Apply(Ev("submit", "", r))

\* another phase is chosen in the selectbox
SelectPhase ==
    \E p \in Range(PhaseNames) :
        /\ screen.kpi_page
        /\ p # phase_select
        /\ Apply(Ev("phase", "", p))

\* one option is added to the multiselect
PickKpi ==
    \E i \in DOMAIN screen.kpi_options :
        /\ screen.kpi_page
        /\ <<phase_select, i>> \in Pickable
        /\ i \notin Range(kpi_multiselect)
        /\ Apply(Ev("select", "", Append(kpi_multiselect, i)))

\* one option is removed from the multiselect
UnpickKpi ==
    \E i \in Range(kpi_multiselect) :
        /\ screen.kpi_page
        /\ Apply(Ev("select", "", SelectSeq(kpi_multiselect, LAMBDA j : j # i)))

\* a file is dropped on the uploader of a KPI the tracker shows
UploadFile ==
    \E k \in Range(screen.tracked), file \in UploadFiles :
        Apply(Ev("upload", k, file))

\* "Generate Data" is clicked for a KPI the tracker shows
ClickGenerate ==
    \E k \in Range(screen.tracked), noise \in NoiseVecs :
        Apply(Ev("generate", k, noise))

ManualRows(k, time_period) ==
    IF k \in DOMAIN kpi_data /\ HasColumn(kpi_data[k], "Time Period")
    THEN Cardinality({i \in 1..NRows(kpi_data[k]) :
                         Column(kpi_data[k], "Time Period")[i] = <<time_period>>})
    ELSE 0

\* "Add Data Point" is clicked for a KPI the tracker shows
ClickAdd ==
    \E k \in Range(screen.tracked), time_period \in TimePeriodInputs, value \in ValueInputs :
        /\ ManualRows(k, time_period) < MaxManualRows
        /\ Apply(Ev("add", k, <<time_period, value>>))

Next ==
    \/ Rerun
    \/ SubmitSurvey
    \/ SelectPhase
    \/ PickKpi
    \/ UnpickKpi
    \/ UploadFile
    \/ ClickGenerate
    \/ ClickAdd

Spec == Init /\ [][Next]_vars

-----------------------------------------------------------------------------
(* plot_kpi_chart on the generated series *)

\* the (industry, KPI name) pairs whose generated series are charted
ChartInputs == { <<"Technology", "Conversion Rate">>,
                 <<"Retail", "Resource Utilization Efficiency">> }

InitChart ==
    /\ survey_completed = FALSE
    /\ survey_responses = EmptyDict
    /\ kpi_suggestions = EmptyDict
    /\ selected_kpis = <<>>
    /\ selected_kpis_struct = <<>>
    /\ kpi_data = EmptyDict
    /\ kpi_explanations = EmptyDict
    /\ phase_outputs = EmptyDict
    /\ phase_select = "POC"
    /\ kpi_multiselect = <<>>
    /\ event = Ev("none", "", <<>>)
    /\ screen = BlankScreen
    /\ fpdf = "fpdf2"
    /\ \E in \in ChartInputs, noise \in [0..(MonthsPerYear - 1) -> NoiseVals] :
          chart_in = generate_focused_fake_data(in[1], "B2C (Business-to-Consumer)",
                                                in[2], noise)
    /\ chart_out = <<>>

\* lines 734-740: the stored table is charted
PlotChart ==
    /\ chart_out = <<>>
    /\ ~PlotRaises(chart_in)
    /\ chart_out' = plot_kpi_chart("kpi", chart_in)
    /\ UNCHANGED <<survey_completed, survey_responses, kpi_suggestions, selected_kpis,
                   selected_kpis_struct, kpi_data, kpi_explanations, phase_outputs,
                   phase_select, kpi_multiselect, event, screen, fpdf, chart_in>>

NextChart == PlotChart

SpecChart == InitChart /\ [][NextChart]_vars

-----------------------------------------------------------------------------
(* The Export KPIs tab on every list of KPI records *)

\* the longest list of KPI records handed to the export tab
MaxExportLen == 2

RECURSIVE SeqsUpTo(_, _)
SeqsUpTo(S, n) ==
    IF n = 0 THEN {<<>>}
    ELSE LET shorter == SeqsUpTo(S, n - 1)
         IN  shorter \cup {Append(q, x) : q \in shorter, x \in S}

TemplateKpis == UNION {Range(predefined_kpis[p]) : p \in DOMAIN predefined_kpis}

InitExport ==
    /\ survey_completed = TRUE
    /\ survey_responses = EmptyDict
    /\ kpi_suggestions = EmptyDict
    /\ selected_kpis = <<>>
    /\ selected_kpis_struct \in SeqsUpTo(TemplateKpis, MaxExportLen)
    /\ kpi_data = EmptyDict
    /\ kpi_explanations = EmptyDict
    /\ phase_outputs = EmptyDict
    /\ phase_select = "POC"
    /\ kpi_multiselect = <<>>
    /\ event = Ev("none", "", <<>>)
    /\ screen = BlankScreen
    /\ fpdf \in {"fpdf2", "fpdf"}
    /\ chart_in = EmptyTable
    /\ chart_out = <<>>

\* lines 760-800 on the list drawn as selected_kpis_struct
ExportTab ==
    /\ event.kind = "none"
    /\ \E acc \in {ExportKpis(NoTabs, selected_kpis_struct)} :
          screen' = [BlankScreen EXCEPT !.kpi_page = TRUE, !.started_completed = TRUE,
                                        !.errors = acc.errors, !.crash = acc.crash,
                                        !.downloads = acc.downloads,
                                        !.exports = acc.exports]
    /\ event' = Ev("export", "", <<>>)
    /\ UNCHANGED <<survey_completed, survey_responses, kpi_suggestions, selected_kpis,
                   selected_kpis_struct, kpi_data, kpi_explanations, phase_outputs,
                   phase_select, kpi_multiselect, fpdf, chart_in, chart_out>>

NextExport == ExportTab

SpecExport == InitExport /\ [][NextExport]_vars

-----------------------------------------------------------------------------
(* Claims *)

\* C1: in every rerun the survey form is rendered exactly when the rerun started
\* with survey_completed = False, the KPI page only when it started with
\* survey_completed = True, and a download button only when, in addition,
\* selected_kpis_struct is non-empty.
C1_FlowOrder ==
    /\ event.kind # "none" => (screen.survey <=> ~screen.started_completed)
    /\ screen.kpi_page => screen.started_completed
    /\ screen.downloads # {} =>
          /\ screen.kpi_page
          /\ screen.started_completed
          /\ selected_kpis_struct # <<>>

C1_Witness ==
    /\ screen.kpi_page
    /\ selected_kpis_struct # <<>>
    /\ "Download KPIs as Text" \in screen.downloads

\* C2: once survey_completed is True it stays True, no later rerun renders the
\* survey form, and no later rerun changes survey_responses, phase_outputs or
\* kpi_suggestions.
C2_SurveyOnce ==
    [][survey_completed =>
          /\ survey_completed'
          /\ ~screen'.survey
          /\ survey_responses' = survey_responses
          /\ phase_outputs' = phase_outputs
          /\ kpi_suggestions' = kpi_suggestions]_vars

C2_Witness ==
    /\ survey_completed
    /\ event.kind = "submit"
    /\ screen.kpi_page

\* C3: on the KPI page the options offered are the entries of
\* kpi_suggestions[phase] for the selected phase, one of the three phases, every
\* element of selected_kpis_struct is an entry of kpi_suggestions[phase], and after
\* a switch of phase nothing selected under the previous phase remains.
C3_State ==
    screen.kpi_page =>
        /\ screen.phase \in {"POC", "Closed Beta", "Public MVP"}
        /\ screen.phase = phase_select
        /\ Len(screen.kpi_options) = Len(kpi_suggestions[screen.phase])
        /\ \A i \in DOMAIN screen.kpi_options :
              screen.kpi_options[i] = <<kpi_suggestions[screen.phase][i].name, ": ",
                                        kpi_suggestions[screen.phase][i].description>>
        /\ \A i \in DOMAIN selected_kpis_struct :
              \E j \in DOMAIN kpi_suggestions[screen.phase] :
                  selected_kpis_struct[i] = kpi_suggestions[screen.phase][j]

C3_Switch ==
    (screen.kpi_page /\ screen'.kpi_page /\ phase_select' # phase_select) =>
        \A i \in DOMAIN selected_kpis_struct :
            \A j \in DOMAIN selected_kpis_struct' :
                selected_kpis_struct'[j] # selected_kpis_struct[i]

C3_PhaseSelection == []C3_State /\ [][C3_Switch]_vars

C3_Witness ==
    /\ screen.kpi_page
    /\ event.kind = "phase"
    /\ selected_kpis # <<>>
    /\ selected_kpis_struct = <<>>
    /\ kpi_data # EmptyDict

\* C4: the exports are computed from selected_kpis_struct of the rerun, and the
\* text export, split at its newlines, is one block per record in list order:
\* 'KPI: <name>', 'Description: <description>', 'Guidance: <guidance>' and an
\* empty line.
C4_TextExport ==
    screen.exports.computed =>
        /\ screen.exports.kpi_list = selected_kpis_struct
        /\ SplitNL(screen.exports.text) =
              Flatten([i \in DOMAIN selected_kpis_struct |->
                  << <<"KPI: ", selected_kpis_struct[i].name>>,
                     <<"Description: ", selected_kpis_struct[i].description>>,
                     <<"Guidance: ", selected_kpis_struct[i].guidance>>,
                     <<>> >>])

C4_Witness ==
    /\ screen.exports.computed
    /\ Len(selected_kpis_struct) = 2
    /\ selected_kpis_struct[1] # selected_kpis_struct[2]

\* C5: a click on Generate stores for that KPI a table of exactly 12 rows whose
\* 'Time Period' column is 'Month 1', ..., 'Month 12' in order, with a 'Value' in
\* every row, whatever the industry and the KPI name.
C5_TwelveMonths ==
    event.kind = "generate" =>
        /\ event.kpi \in DOMAIN kpi_data
        /\ kpi_data[event.kpi].cols = <<"Time Period", "Value">>
        /\ kpi_data[event.kpi].data[1] =
              << <<"Month ", 1>>, <<"Month ", 2>>, <<"Month ", 3>>, <<"Month ", 4>>,
                 <<"Month ", 5>>, <<"Month ", 6>>, <<"Month ", 7>>, <<"Month ", 8>>,
                 <<"Month ", 9>>, <<"Month ", 1, 0>>, <<"Month ", 1, 1>>,
                 <<"Month ", 1, 2>> >>
        /\ Len(kpi_data[event.kpi].data[2]) = 12
        /\ \A i \in 1..12 : Len(kpi_data[event.kpi].data[2][i]) = 1

C5_Witness ==
    /\ event.kind = "generate"
    /\ event.kpi = "Resource Utilization Efficiency"
    /\ survey_responses["Industry"] = "Retail"
    /\ event.kpi \in DOMAIN kpi_data

\* C6: after the survey is submitted kpi_suggestions has an entry for each of the
\* three phases, each a non-empty list of records of the template of that phase
\* with the fields name, description and guidance; for any other phase name
\* get_predefined_kpis returns the empty list.
C6_Suggestions ==
    survey_completed =>
        /\ DOMAIN kpi_suggestions = {"POC", "Closed Beta", "Public MVP"}
        /\ \A p \in DOMAIN kpi_suggestions :
              /\ kpi_suggestions[p] # <<>>
              /\ \A i \in DOMAIN kpi_suggestions[p] :
                    /\ kpi_suggestions[p][i] \in Range(predefined_kpis[p])
                    /\ DOMAIN kpi_suggestions[p][i] = {"name", "description", "guidance"}
        /\ \A q \in {"", "poc", "Pilot", "General Availability"} :
              get_predefined_kpis(q, survey_responses) = <<>>

C6_Witness ==
    /\ survey_completed
    /\ Len(kpi_suggestions["Closed Beta"]) = 6
    /\ Len(kpi_suggestions["POC"]) = 5

\* C7: an upload stores data only when the file is readable and its column names,
\* compared case-insensitively, include 'time_period' and 'value', and then it
\* does; otherwise an error is displayed and kpi_data is unchanged for every KPI.
C7_Accepted(file) ==
    /\ file.readable
    /\ \E i \in DOMAIN file.cols : file.cols[i] \in {"time_period", "Time_Period", "TIME_PERIOD"}
    /\ \E i \in DOMAIN file.cols : file.cols[i] \in {"value", "Value", "VALUE"}

C7_Upload ==
    [][event'.kind = "upload" =>
          /\ kpi_data' # kpi_data => C7_Accepted(event'.arg)
          /\ C7_Accepted(event'.arg) => event'.kpi \in DOMAIN kpi_data'
          /\ ~C7_Accepted(event'.arg) =>
                /\ kpi_data' = kpi_data
                /\ screen'.errors # {}]_vars

C7_Witness ==
    /\ event.kind = "upload"
    /\ event.arg.readable
    /\ event.arg.cols = <<"Time Period", "Value">>
    /\ screen.errors # {}
    /\ kpi_data # EmptyDict

\* C8: every table stored in kpi_data has the columns 'Time Period' and 'Value',
\* and the Display Data and Plot step never fails on a missing column.
C8_PlotColumns ==
    /\ \A k \in DOMAIN kpi_data :
          /\ HasColumn(kpi_data[k], "Time Period")
          /\ HasColumn(kpi_data[k], "Value")
    /\ screen.crash # "KeyError"

\* C9: for the generated series the charted points are in the order Month 1,
\* Month 2, ..., Month 12 and the Moving Average at Month k is the mean of the
\* values of Months max(1, k-2) through k.
C9_Chronological ==
    chart_out # <<>> =>
        \A k \in 1..12 :
            LET lo == IF k > 2 THEN k - 2 ELSE 1
                total == SumValues([i \in 1..(k - lo + 1) |->
                             [value |-> Column(chart_in, "Value")[lo + i - 1][1]]])
            IN  /\ chart_out[k].period = Column(chart_in, "Time Period")[k]
                /\ chart_out[k].moving_average.sum * (k - lo + 1) =
                      total * chart_out[k].moving_average.n

\* C10: for every survey response the KPI names within each phase's list are
\* pairwise distinct.
C10_DistinctNames ==
    survey_completed =>
        \A p \in DOMAIN kpi_suggestions :
            \A i, j \in DOMAIN kpi_suggestions[p] :
                i # j => kpi_suggestions[p][i].name # kpi_suggestions[p][j].name

\* C11: at the end of every rerun of the KPI page selected_kpis is exactly the
\* list of options chosen in the active phase's multiselect, the list
\* selected_kpis_struct was built from; when the selection is cleared both are
\* empty.
C11_SameSelection ==
    screen.kpi_page =>
        /\ Len(selected_kpis) = Len(kpi_multiselect)
        /\ \A i \in DOMAIN selected_kpis :
              selected_kpis[i] = screen.kpi_options[kpi_multiselect[i]]
        /\ selected_kpis_struct = <<>> => selected_kpis = <<>>
====
